---- MODULE Spec2Model ----
(***************************************************************************)
(* A model of the DCInside crawl engine                                    *)
(* (src/src/core/crawlers/dcinside/DCInsideCrawler.ts): the HTTP client    *)
(* with its retry counter, the listing walker, the post/comment collector  *)
(* and the repository port they write through.                             *)
(*                                                                         *)
(* Strings that the code compares with < are kept as sequences of UTF-16   *)
(* code units, post numbers as sequences of decimal digits, a platform id  *)
(* "DC&<gallType>&<galleryId>&<postNo>" as the record of its three parts.  *)
(***************************************************************************)
EXTENDS Integers, Sequences, FiniteSets, TLC

\* ------------------------------------------------------------------ bounds
\* startCrawling invocations in one behaviour
MaxRuns == 2
\* failures the engine meets in one behaviour: error responses of the upstream
\* (404, 429, 5xx, no response) and backend errors of the repository
EngineFaults == 1
\* error responses the upstream gives in one behaviour of the HTTP client alone
ClientFaults == 5
\* non-empty comment pages the upstream serves for one post
MaxCommentPages == 2

\* ------------------------------------------------------- program constants
maxRetries == 3

\* ------------------------------------------------------------ basic values
\* a JavaScript Date: valid with a day number, or Invalid Date
Date(t) == [valid |-> TRUE, t |-> t]
InvalidDate == [valid |-> FALSE, t |-> 0]
\* options.dateFrom: undefined, or the Date built from it
NoDateFrom == [set |-> FALSE, valid |-> FALSE, t |-> 0]
DateFrom(t) == [set |-> TRUE, valid |-> TRUE, t |-> t]

\* UTF-16 code units of the strings the comparator sees
CodeUnits(s) ==
  CASE s = "G" -> <<71>>
    [] s = "M" -> <<77>>
    [] s = "MI" -> <<77, 73>>
    [] s = "pro" -> <<112, 114, 111>>
    [] s = "art" -> <<97, 114, 116>>
    [] OTHER -> <<>>

RECURSIVE StrLess(_, _)
\* JavaScript's a < b on strings: lexicographic on code units
StrLess(a, b) ==
  IF a = <<>> THEN b # <<>>
  ELSE IF b = <<>> THEN FALSE
  ELSE IF a[1] # b[1] THEN a[1] < b[1]
  ELSE StrLess(Tail(a), Tail(b))

RECURSIVE Number(_)
\* JavaScript's Number(s) on a string of decimal digits (Number("") is 0)
Number(digits) ==
  IF digits = <<>> THEN 0
  ELSE 10 * Number(SubSeq(digits, 1, Len(digits) - 1)) + digits[Len(digits)]

\* ------------------------------------------------------------------ options
\* DCCrawlerOptions as getFirstUrl reads them. mode: "keyword" when sid is
\* DC_KEYWORD_CRAWLER, "gallog" when it is DC_GALLOG_CRAWLER, else "cid1" or
\* "cid2" for the legacy cid, else "plain"; keyword, target and url tell
\* whether the option is supplied (a non-empty string)
Options(mode, keyword, target, url) ==
  [mode |-> mode, keyword |-> keyword, target |-> target, url |-> url]

Modes == {"keyword", "gallog", "cid1", "cid2", "plain"}

OptionSet == [mode : Modes, keyword : BOOLEAN, target : BOOLEAN, url : BOOLEAN]

\* the options of a scenario that crawls a gallery URL
UrlOptions == Options("plain", FALSE, FALSE, TRUE)

\* getFirstUrl, lines 334-375: the cases in which it throws
getFirstUrlThrows(o) ==
  CASE o.mode = "keyword" -> ~o.keyword \/ ~o.target
    [] o.mode = "gallog" -> ~o.url
    [] o.mode = "cid1" -> ~o.keyword \/ ~o.target
    [] o.mode = "cid2" -> ~o.url
    [] OTHER -> ~o.url /\ ~o.target

\* the constructor, lines 123-164: whether it throws. getFirstUrl is called
\* only when neither crawler id matches, and inside try/catch (lines 143-148)
constructorThrows(o) ==
  CASE o.mode = "keyword" -> FALSE
    [] o.mode = "gallog" -> FALSE
    [] OTHER -> IF getFirstUrlThrows(o) THEN FALSE ELSE FALSE

\* ---------------------------------------------------------------- URL codec
\* a URL as its path prefix and its id and no query parameters; a missing
\* parameter and an empty one are both "" (the code treats them alike)
Url(prefix, id, no) == [prefix |-> prefix, id |-> id, no |-> no]

PlatformId(gallType, galleryId, postNo) ==
  [gallType |-> gallType, galleryId |-> galleryId, postNo |-> postNo]

\* the InvalidUrlError cases of extractGalleryInfoFromUrl
ThrowsInvalidUrl(url) ==
  \/ url.prefix \notin {"/mgallery/", "/mini/", "/board/"}
  \/ url.id = ""

extractGalleryInfoFromUrl(url) ==
  [gallType |-> CASE url.prefix = "/mgallery/" -> "M"
                  [] url.prefix = "/mini/" -> "MI"
                  [] OTHER -> "G",
   galleryId |-> url.id,
   postNo |-> url.no]

urlToPlatformId(url) ==
  LET data == extractGalleryInfoFromUrl(url)
  IN PlatformId(data.gallType, data.galleryId, data.postNo)

platformIdToUrl(platformId) ==
  Url(CASE platformId.gallType = "M" -> "/mgallery/"
        [] platformId.gallType = "MI" -> "/mini/"
        [] OTHER -> "/board/",
      platformId.galleryId, platformId.postNo)

splitPlatformId(platformId) ==
  <<CodeUnits(platformId.gallType), CodeUnits(platformId.galleryId), platformId.postNo>>

\* the comparator of startCrawling's ids.sort: negative, zero or positive
compareIds_lexPostNo(a, b) ==
  LET as == splitPlatformId(a)
      bs == splitPlatformId(b)
  IN IF as[1] # bs[1] THEN (IF StrLess(as[1], bs[1]) THEN -1 ELSE 1)
     ELSE IF as[2] # bs[2] THEN (IF StrLess(as[2], bs[2]) THEN -1 ELSE 1)
     ELSE IF as[3] = bs[3] THEN 0
     ELSE IF StrLess(as[3], bs[3]) THEN -1 ELSE 1

compareIds(a, b) ==
  LET as == splitPlatformId(a)
      bs == splitPlatformId(b)
  IN IF as[1] # bs[1] THEN (IF StrLess(as[1], bs[1]) THEN -1 ELSE 1)
     ELSE IF as[2] # bs[2] THEN (IF StrLess(as[2], bs[2]) THEN -1 ELSE 1)
     ELSE Number(as[3]) - Number(bs[3])

RECURSIVE InsertId(_, _)
InsertId(x, s) ==
  IF s = <<>> THEN <<x>>
  ELSE IF compareIds(x, s[1]) < 0 THEN <<x>> \o s
  ELSE <<s[1]>> \o InsertId(x, Tail(s))

RECURSIVE SortIds(_)
\* Array.from(postIdSet) followed by the stable ids.sort(compare)
SortIds(s) ==
  IF s = <<>> THEN <<>>
  ELSE CHOOSE out \in {InsertId(s[Len(s)], sorted) :
                          sorted \in {SortIds(SubSeq(s, 1, Len(s) - 1))}} : TRUE

\* Set.add on the insertion-ordered postIdSet
SetAdd(s, x) == IF \E i \in DOMAIN s : s[i] = x THEN s ELSE Append(s, x)

\* ------------------------------------------------- the URL codec as text
\* The operators above are the codec on gallery ids and post numbers that
\* hold no reserved character. Below is the codec on the text itself. A text
\* is a sequence of characters; in the query of a URL that is given to the
\* engine a percent escape is one element ("%26" is the escape of "&").
MaxIdLen == 2

\* no such parameter: what URLSearchParams.get returns then
Null == << "null" >>

Text(str) ==
  CASE str = "id" -> << "i", "d" >>
    [] str = "no" -> << "n", "o" >>
    [] str = "DC" -> << "D", "C" >>
    [] str = "M" -> << "M" >>
    [] str = "MI" -> << "M", "I" >>
    [] str = "G" -> << "G" >>
    [] str = "42" -> << "4", "2" >>
    [] str = "7" -> << "7" >>
    [] str = "pro" -> << "p", "r", "o" >>
    [] str = "undefined" -> << "u", "n", "d", "e", "f", "i", "n", "e", "d" >>
    [] OTHER -> << >>

\* a URL string: the segments of its path and the text of its query (what
\* follows the first "?")
UrlText(path, query) == [path |-> path, query |-> query]

\* the position of the first occurrence of ch in s, 0 when there is none
RECURSIVE IndexOf(_, _, _)
IndexOf(s, ch, i) ==
  IF i > Len(s) THEN 0
  ELSE IF s[i] = ch THEN i
  ELSE IndexOf(s, ch, i + 1)

\* String.prototype.split(sep) for a one-character separator
RECURSIVE Split(_, _)
Split(s, sep) ==
  LET k == IndexOf(s, sep, 1)
  IN IF k = 0 THEN << s >>
     ELSE << SubSeq(s, 1, k - 1) >> \o Split(SubSeq(s, k + 1, Len(s)), sep)

\* what the URL parser leaves of one element of the query: a raw space is
\* percent-encoded, everything else is kept
UrlParserQuery(q) == [i \in DOMAIN q |-> IF q[i] = " " THEN "%20" ELSE q[i]]

\* new URL(url).search, line 176: the query up to the fragment
UrlSearch(q) ==
  LET k == IndexOf(q, "#", 1)
  IN UrlParserQuery(IF k = 0 THEN q ELSE SubSeq(q, 1, k - 1))

\* URLSearchParams decoding of one element: "+" is a space, an escape is the
\* character it stands for
DecodeElement(e) ==
  CASE e = "+" -> " "
    [] e = "%20" -> " "
    [] e = "%26" -> "&"
    [] e = "%2B" -> "+"
    [] e = "%23" -> "#"
    [] OTHER -> e

DecodeText(t) == [i \in DOMAIN t |-> DecodeElement(t[i])]

\* new URLSearchParams(search), line 176: the name and value pairs in order
SearchParams(search) ==
  LET NotEmpty(piece) == piece # << >>
      pieces == SelectSeq(Split(search, "&"), NotEmpty)
      Pair(piece) ==
        LET k == IndexOf(piece, "=", 1)
        IN IF k = 0 THEN [name |-> DecodeText(piece), value |-> << >>]
           ELSE [name |-> DecodeText(SubSeq(piece, 1, k - 1)),
                 value |-> DecodeText(SubSeq(piece, k + 1, Len(piece)))]
  IN [i \in DOMAIN pieces |-> Pair(pieces[i])]

\* params.get(name), lines 177-178: the first value of that name, or null
RECURSIVE ParamsGet(_, _)
ParamsGet(params, name) ==
  IF params = << >> THEN Null
  ELSE IF params[1].name = name THEN params[1].value
  ELSE ParamsGet(Tail(params), name)

\* pathname.startsWith("/<segment>/"), lines 171-173
PathStartsWith(path, segment) == Len(path) >= 2 /\ path[1] = segment

\* lines 170-174: "" stands for the null that makes line 174 throw
GallTypeOfPath(path) ==
  IF PathStartsWith(path, "mgallery") THEN "M"
  ELSE IF PathStartsWith(path, "mini") THEN "MI"
  ELSE IF PathStartsWith(path, "board") THEN "G"
  ELSE ""

\* extractGalleryInfoFromUrl on the text of a URL, lines 167-183
ThrowsInvalidUrlText(u) ==
  \/ GallTypeOfPath(u.path) = ""
  \/ ParamsGet(SearchParams(UrlSearch(u.query)), Text("id")) \in {Null, << >>}

extractGalleryInfoFromUrlText(u) ==
  LET params == SearchParams(UrlSearch(u.query))
  IN [gallType |-> GallTypeOfPath(u.path),
      galleryId |-> ParamsGet(params, Text("id")),
      postNo |-> ParamsGet(params, Text("no"))]

\* urlToPlatformId on text, lines 185-188
urlToPlatformIdText(u) ==
  LET data == extractGalleryInfoFromUrlText(u)
  IN Text("DC") \o << "&" >> \o Text(data.gallType) \o << "&" >> \o data.galleryId
       \o << "&" >> \o (IF data.postNo = Null THEN << >> ELSE data.postNo)

\* an element of a destructured array, "undefined" in a template when missing
Part(parts, i) == IF i <= Len(parts) THEN parts[i] ELSE Text("undefined")

\* platformIdToUrl on text, lines 190-196
platformIdToUrlText(platformId) ==
  LET parts == Split(platformId, "&")
      gallType == Part(parts, 2)
      prefix == IF gallType = Text("M") THEN << "mgallery" >>
                ELSE IF gallType = Text("MI") THEN << "mini" >>
                ELSE << >>
  IN UrlText(prefix \o << "board", "view" >>,
             Text("id") \o << "=" >> \o Part(parts, 3) \o << "&" >> \o Text("no")
               \o << "=" >> \o Part(parts, 4))

\* the texts of length 1 to n over an alphabet
RECURSIVE TextsUpTo(_, _)
TextsUpTo(alphabet, n) ==
  IF n = 0 THEN {}
  ELSE LET shorter == TextsUpTo(alphabet, n - 1)
       IN {<< a >> : a \in alphabet} \cup shorter
            \cup {Append(t, a) : t \in shorter, a \in alphabet}

\* the elements a gallery id is written with in a URL
IdAlphabet == {"p", "r", "+", "%26", "%2B"}

\* the post view URLs: one of the three view paths, with an id and a no
\* parameter in either order
PostViewUrls ==
  LET paths == { << "mgallery", "board", "view" >>, << "mini", "board", "view" >>,
                 << "board", "view" >> }
      idPart(v) == Text("id") \o << "=" >> \o v
      noPart(n) == Text("no") \o << "=" >> \o n
  IN { UrlText(path, IF idFirst THEN idPart(v) \o << "&" >> \o noPart(n)
                     ELSE noPart(n) \o << "&" >> \o idPart(v)) :
         path \in paths, v \in TextsUpTo(IdAlphabet, MaxIdLen) \cup {Text("pro")},
         n \in {Text("42"), Text("7")}, idFirst \in BOOLEAN }

\* -------------------------------------------------------------- HTTP client
\* what axios gives one attempt: an HTTP status (validateStatus accepts every
\* status, so each one is a response), or 0 when axios rejects without a
\* response (network failure, timeout)
Responses == {0, 200, 404, 429, 500}

\* line 270: the counter is zeroed as soon as axios returns a response
RetryCountAfterAxios(r, rc) == IF r # 0 THEN 0 ELSE rc

\* lines 273-281 throw; a rejected axios call throws too
AttemptThrows(r) == r = 0 \/ r = 429 \/ r = 404 \/ r >= 400

isNotFound_never(r) == FALSE

\* lines 295-297
isNotFound(r) == r = 404

\* line 301
BackoffDelay(rc) == (2 ^ rc) * 1000

\* one invocation of sendRequest up to its return, its throw or its recursive
\* call: the result and the counter it leaves, and the delay it slept
SendStep(r, rc) ==
  LET rc1 == RetryCountAfterAxios(r, rc)
  IN IF ~AttemptThrows(r)
       THEN [result |-> "ok", retryCount |-> rc1, slept |-> <<>>]
     ELSE IF ~isNotFound(r) /\ rc1 < maxRetries
       THEN [result |-> "pending", retryCount |-> rc1 + 1,
             slept |-> <<BackoffDelay(rc1 + 1)>>]
     ELSE [result |-> IF isNotFound(r) THEN "notfound" ELSE "error",
           retryCount |-> rc1, slept |-> <<>>]

\* ------------------------------------------------------------------- state
VARIABLES
  listing,        \* which upstream listing the scenario points at
  options,        \* the mode and the inputs the engine was given
  dateFrom,       \* options.dateFrom as a Date
  codec,          \* a URL text, the platform id made of it and the URL made of that id
  posts,          \* repository: platform ids of the scenario's post rows
  comments,       \* repository: platform comment ids of the scenario
  insertLog,      \* every platform id insertPost created a row for, in order
  lastBulk,       \* the last insertCommentsBulk call: its batch and the comments stored before it
  repoCalls,      \* the repository operations called in this run
  postIdSet,      \* the engine's postIdSet, in insertion order
  retryCount,     \* the engine's retryCount
  heartbeat,      \* the heartbeat interval is running
  cancel,         \* what shouldCancel() answers now
  pc,             \* where the engine is
  nextUrl, currentPageUrl, pagingBar, linkIdx,   \* search()
  rows, rowIdx, inner,                           \* getPostList() and its caller
  ids, idx,                                      \* the collector loop
  saved, page,                                   \* savePostInfo / saveCommentsFromPost
  sendResult,     \* the send call in progress or just ended
  attempts,       \* requests issued by that call
  delays,         \* the backoff sleeps of that call, in ms
  resps,          \* the responses that call received
  faultBudget,    \* failures the upstream and the repository may still produce
  runs,           \* startCrawling invocations so far
  outcome,        \* how the last startCrawling ended
  stopCause,      \* the first stop condition a row of this run met
  stopQueued,     \* postIdSet when it met it
  stopFetches,    \* listing pages fetched when it met it
  listFetches,    \* listing pages requested in this run
  queuedRows,     \* the rows whose id was added to postIdSet by this engine
  savedSeq,       \* the ids savePostInfo was called with in this run
  lastDetail,     \* how the post fetch of the savePostInfo call just ended went
  skipped,        \* the ids savePostInfo returned for without a stored post
  fetchedUrls,    \* the listing URLs requested in this run, in order
  walkFault       \* the first failure the walker met in this run: "fetch" or "ingest"

inputVars == <<listing, options, dateFrom, codec>>
repoVars == <<posts, comments, insertLog, lastBulk, repoCalls>>
walkVars == <<nextUrl, currentPageUrl, pagingBar, linkIdx, rows, rowIdx, inner>>
collectVars == <<ids, idx, saved, page>>
sendVars == <<sendResult, attempts, delays, resps, faultBudget>>
histVars == <<stopCause, stopQueued, stopFetches, listFetches, queuedRows, savedSeq,
              lastDetail, skipped, fetchedUrls, walkFault>>
vars == <<inputVars, repoVars, postIdSet, retryCount, heartbeat, cancel, pc,
          walkVars, collectVars, sendVars, runs, outcome, histVars>>

\* a caller starts a send call
BeginSend ==
  /\ sendResult' = "pending"
  /\ attempts' = 0
  /\ delays' = <<>>
  /\ resps' = <<>>
  /\ UNCHANGED faultBudget

\* sendRequest, one attempt: lines 242-310
SendAttempt ==
  /\ sendResult = "pending"
  /\ \E r \in Responses :
       /\ r # 200 => faultBudget > 0
       /\ LET step == SendStep(r, retryCount)
          IN /\ sendResult' = step.result
             /\ retryCount' = step.retryCount
             /\ delays' = delays \o step.slept
       /\ attempts' = attempts + 1
       /\ resps' = Append(resps, r)
       /\ faultBudget' = IF r # 200 THEN faultBudget - 1 ELSE faultBudget
  /\ UNCHANGED <<inputVars, repoVars, postIdSet, heartbeat, cancel, pc, walkVars,
                 collectVars, runs, outcome, histVars>>

\* ------------------------------------------------------------ the upstream
Digits101 == <<1, 0, 1>>
Digits100 == <<1, 0, 0>>
Digits99 == <<9, 9>>
Digits98 == <<9, 8>>
Digits10 == <<1, 0>>
Digits9 == <<9>>
Digits7 == <<7>>
Digits12 == <<1, 2>>

\* a listing row as getPostList reads it: the data-no attribute, the kind of
\* text in td.gall_num, the link it finds ("ok": an href that resolves to url,
\* "none": no href, "bad": an href new URL() rejects) and the parsed date
Row(dataNo, num, link, url, date) ==
  [dataNo |-> dataNo, num |-> num, link |-> link, url |-> url, date |-> date]

PostRow(prefix, gal, no, t) == Row(FALSE, "digits", "ok", Url(prefix, gal, no), Date(t))

\* a pagination anchor: its class attribute and its href ("" when it has none)
Anchor(cls, href) == [cls |-> cls, href |-> href]

Listings == {"A", "B", "C"}

\* the first listing URL of the scenario
FirstUrl(l) == CASE l = "A" -> "A1" [] l = "B" -> "B1" [] OTHER -> "C1"

\* getFirstUrl, lines 334-375: the URL it returns when it does not throw. The
\* URL of a scenario that crawls a gallery URL is options.url; the others are
\* named by what they are built from
getFirstUrl(o, l) ==
  CASE o.mode = "keyword" -> "lists?id=target&s_keyword=keyword"
    [] o.mode = "gallog" -> "url/posting"
    [] o.mode = "cid1" -> "lists?id=target&s_keyword=keyword"
    [] o.mode = "cid2" -> "url/posting"
    [] OTHER -> IF o.url THEN FirstUrl(l) ELSE "lists?id=target"

\* what the upstream serves at a listing URL: the rows and the pagination bar
ListingPage(u) ==
  CASE u = "A1" ->
         [rows |-> << Row(FALSE, "notice", "ok", Url("/board/", "pro", Digits7), Date(3)),
                      Row(TRUE, "text", "ok", Url("/board/", "pro", Digits101), Date(3)),
                      PostRow("/board/", "pro", Digits100, 3),
                      PostRow("/board/", "pro", Digits99, 2) >>,
          paging |-> << Anchor("", "A2"), Anchor("on", "A1"), Anchor("", ""),
                        Anchor("page_next", "A3") >>]
    [] u = "A2" ->
         [rows |-> << Row(FALSE, "digits", "none", Url("/board/", "pro", Digits12), Date(1)),
                      Row(FALSE, "text", "ok", Url("/board/", "pro", Digits12), Date(1)),
                      PostRow("/board/", "pro", Digits98, 1) >>,
          paging |-> <<>>]
    [] u = "A3" ->
         [rows |-> << PostRow("/mgallery/", "pro", Digits9, 1) >>,
          paging |-> << Anchor("page_prev", "A1") >>]
    [] u = "B1" ->
         [rows |-> << PostRow("/mini/", "art", Digits7, 3),
                      PostRow("/mgallery/", "pro", Digits10, 3),
                      Row(TRUE, "digits", "ok", Url("/mgallery/", "art", Digits12), InvalidDate),
                      Row(FALSE, "digits", "bad", Url("/board/", "pro", Digits7), Date(3)),
                      PostRow("/mgallery/", "pro", Digits9, 2) >>,
          paging |-> << Anchor("", "B2") >>]
    [] u = "B2" ->
         [rows |-> << PostRow("/other/", "pro", Digits7, 2),
                      PostRow("/board/", "pro", Digits7, 2) >>,
          paging |-> <<>>]
    [] u = "C1" ->
         [rows |-> << PostRow("/other/", "pro", Digits7, 3),
                      PostRow("/board/", "pro", Digits7, 3) >>,
          paging |-> <<>>]
    [] OTHER -> [rows |-> <<>>, paging |-> <<>>]

\* the comment count the post page of a platform id shows
CommentCntOf(id) == IF id = PlatformId("G", "pro", Digits101) THEN 2 ELSE 0

\* a comment API item: its number ("" when missing), del_yn = 'Y', and
\* whether its memo strips to some text
Comment(no, deleted, text) == [no |-> no, deleted |-> deleted, text |-> text]

\* the non-empty comment lists the upstream may answer with
CommentPages ==
  { << Comment(<<1>>, FALSE, TRUE), Comment(<<1>>, FALSE, TRUE) >>,
    << Comment(<<2>>, FALSE, TRUE) >>,
    << Comment(<<1>>, FALSE, TRUE), Comment(<<2>>, FALSE, TRUE), Comment(<<3>>, FALSE, TRUE) >>,
    << Comment(<<>>, FALSE, TRUE), Comment(<<3>>, TRUE, TRUE), Comment(<<2>>, FALSE, FALSE),
       Comment(<<1>>, FALSE, TRUE) >> }

\* ------------------------------------------------------------- listing rows
isPostRow_everyRow(row) == TRUE

\* lines 594-598
isPostRow(row) ==
  LET isNumericNum == row.num = "digits"
      isNotice == row.num = "notice"
  IN row.dataNo \/ (isNumericNum /\ ~isNotice)

\* a Date compared with <: an Invalid Date is NaN and compares false
DateLess(a, b) == a.valid /\ b.valid /\ a.t < b.t

dateCutoff_never(from, writtenAt) == FALSE

\* line 643: the row is older than dateFrom
dateCutoff(from, writtenAt) == from.set /\ DateLess(writtenAt, from)

afterLookup_continue(exists) == IF exists THEN "skip" ELSE "queue"

\* lines 653-665: an existing post ends the walk, a new one is queued
afterLookup(exists) == IF exists THEN "stop" ELSE "queue"

\* lines 591-646 for one row, up to the repository lookup
beforeLookup(row, from) ==
  IF ~isPostRow(row) THEN "skip"
  ELSE IF row.link # "ok" THEN "skip"
  ELSE IF dateCutoff(from, row.date) THEN "stop"
  ELSE IF ThrowsInvalidUrl(row.url) THEN "throw"
  ELSE "lookup"

RECURSIVE NextPageLink_takesClassed(_, _)
NextPageLink_takesClassed(bar, i) ==
  IF i > Len(bar) THEN 0
  ELSE IF bar[i].href = "" THEN NextPageLink_takesClassed(bar, i + 1)
  ELSE i

\* lines 484-497: the next anchor at or after position i that the inner loop fetches
RECURSIVE NextPageLink(_, _)
NextPageLink(bar, i) ==
  IF i > Len(bar) THEN 0
  ELSE IF bar[i].cls # "" \/ bar[i].href = "" THEN NextPageLink(bar, i + 1)
  ELSE i

\* lines 676-684: the href of the first page_next or search_next anchor, "" for undefined
RECURSIVE extractNextHrefFromPaging(_)
extractNextHrefFromPaging(bar) ==
  IF bar = <<>> THEN ""
  ELSE IF bar[1].cls \in {"page_next", "search_next"} THEN bar[1].href
  ELSE extractNextHrefFromPaging(Tail(bar))

\* --------------------------------------------------------------- the engine
Terminal == {"ok", "notfound", "error"}

NoPost == [id |-> PlatformId("G", "", <<>>), url |-> Url("/board/", "", <<>>),
           commentCnt |-> 0]

NoBulk == [batch |-> <<>>, before |-> {}, items |-> <<>>, list |-> <<>>]

\* the locals of search and getPostList are gone
WalkLocalsGone ==
  /\ nextUrl' = ""
  /\ currentPageUrl' = ""
  /\ pagingBar' = <<>>
  /\ linkIdx' = 1
  /\ rows' = <<>>
  /\ rowIdx' = 1
  /\ inner' = FALSE

\* the locals of the collector loop are gone
CollectLocalsGone ==
  /\ ids' = <<>>
  /\ idx' = 1
  /\ saved' = NoPost
  /\ page' = 1

\* the caller has taken the result of its send call
SendTaken ==
  /\ sendResult' = "none"
  /\ attempts' = 0
  /\ delays' = <<>>
  /\ resps' = <<>>

\* the constructor: lines 116-117 and 123-164
NewEngine ==
  /\ pc = "idle"
  /\ runs > 0
  /\ runs < MaxRuns
  /\ ~(postIdSet = <<>> /\ retryCount = 0)
  /\ postIdSet' = <<>>
  /\ retryCount' = 0
  /\ queuedRows' = {}
  /\ stopCause' = "none"
  /\ stopQueued' = <<>>
  /\ stopFetches' = 0
  /\ UNCHANGED <<inputVars, repoVars, heartbeat, cancel, pc, walkVars, collectVars,
                 sendVars, runs, outcome, listFetches, savedSeq, lastDetail, skipped,
                 fetchedUrls, walkFault>>

\* shouldCancel() starts answering true
CancelRequested ==
  /\ pc # "idle"
  /\ ~cancel
  /\ cancel' = TRUE
  /\ UNCHANGED <<inputVars, repoVars, postIdSet, retryCount, heartbeat, pc, walkVars,
                 collectVars, sendVars, runs, outcome, histVars>>

\* shouldCancel() answers false again before a later invocation
CancelCleared ==
  /\ pc = "idle"
  /\ cancel
  /\ runs < MaxRuns
  /\ cancel' = FALSE
  /\ UNCHANGED <<inputVars, repoVars, postIdSet, retryCount, heartbeat, pc, walkVars,
                 collectVars, sendVars, runs, outcome, histVars>>

StartCrawling_rehydrates ==
  /\ pc = "idle"
  /\ runs < MaxRuns
  /\ runs' = runs + 1
  /\ heartbeat' = TRUE
  /\ outcome' = "running"
  /\ pc' = "start"
  /\ stopCause' = "none"
  /\ stopQueued' = <<>>
  /\ stopFetches' = 0
  /\ listFetches' = 0
  /\ fetchedUrls' = <<>>
  /\ walkFault' = "none"
  /\ savedSeq' = <<>>
  /\ repoCalls' = {"listRecentPosts"} \cup
                    (IF posts # {} THEN {"updatePostCommentCount"} ELSE {})
  /\ UNCHANGED <<inputVars, posts, comments, insertLog, lastBulk, postIdSet, retryCount,
                 cancel, walkVars, collectVars, sendVars, queuedRows, lastDetail, skipped>>

\* startCrawling, lines 378-386: the heartbeat is started and search is called
\* (saveFromExistingPosts, lines 384 and 421-470, is commented out)
StartCrawling ==
  /\ pc = "idle"
  /\ runs < MaxRuns
  /\ runs' = runs + 1
  /\ heartbeat' = TRUE
  /\ outcome' = "running"
  /\ pc' = "start"
  /\ stopCause' = "none"
  /\ stopQueued' = <<>>
  /\ stopFetches' = 0
  /\ listFetches' = 0
  /\ fetchedUrls' = <<>>
  /\ walkFault' = "none"
  /\ savedSeq' = <<>>
  /\ repoCalls' = {}
  /\ UNCHANGED <<inputVars, posts, comments, insertLog, lastBulk, postIdSet, retryCount,
                 cancel, walkVars, collectVars, sendVars, queuedRows, lastDetail, skipped>>

Leaves_heartbeatLeft(how) ==
  /\ pc' = "idle"
  /\ heartbeat' = heartbeat
  /\ outcome' = how
  /\ WalkLocalsGone
  /\ CollectLocalsGone

\* startCrawling leaves through its finally block, lines 416-418
Leaves(how) ==
  /\ pc' = "idle"
  /\ heartbeat' = FALSE
  /\ outcome' = how
  /\ WalkLocalsGone
  /\ CollectLocalsGone

\* search returned: lines 388-401, the sort and the head of the collector loop
SearchReturned ==
  /\ ids' = SortIds(postIdSet)
  /\ idx' = 1
  /\ pc' = "collect"
  /\ WalkLocalsGone
  /\ UNCHANGED <<saved, page, heartbeat, outcome>>

\* search, line 474: getFirstUrl gives the first listing URL or throws
SearchFirstUrl ==
  /\ pc = "start"
  /\ IF getFirstUrlThrows(options)
       THEN Leaves("raised")
       ELSE /\ nextUrl' = getFirstUrl(options, listing)
            /\ pc' = "search"
            /\ UNCHANGED <<currentPageUrl, pagingBar, linkIdx, rows, rowIdx, inner,
                           collectVars, heartbeat, outcome>>
  /\ UNCHANGED <<inputVars, repoVars, postIdSet, retryCount, cancel, sendVars, runs,
                 histVars>>

\* the walker met a failure: the first one of the run is remembered
NoteFault(kind) == walkFault' = IF walkFault = "none" THEN kind ELSE walkFault

\* search, lines 476-479: the head of the block loop
SearchBlock ==
  /\ pc = "search"
  /\ IF cancel
       THEN /\ SearchReturned
            /\ UNCHANGED <<sendVars, listFetches, fetchedUrls>>
       ELSE /\ BeginSend
            /\ listFetches' = listFetches + 1
            /\ fetchedUrls' = Append(fetchedUrls, nextUrl)
            /\ pc' = "first_wait"
            /\ UNCHANGED <<walkVars, collectVars, heartbeat, outcome>>
  /\ UNCHANGED <<inputVars, repoVars, postIdSet, retryCount, cancel, runs, stopCause,
                 stopQueued, stopFetches, queuedRows, savedSeq, lastDetail, skipped,
                 walkFault>>

\* search, lines 479-480: the first page of the block arrived or its fetch threw
SearchBlockPage ==
  /\ pc = "first_wait"
  /\ sendResult \in Terminal
  /\ SendTaken
  /\ IF sendResult = "ok"
       THEN /\ rows' = ListingPage(nextUrl).rows
            /\ pagingBar' = ListingPage(nextUrl).paging
            /\ rowIdx' = 1
            /\ inner' = FALSE
            /\ pc' = "ingest"
            /\ UNCHANGED <<nextUrl, currentPageUrl, linkIdx, collectVars, heartbeat,
                           outcome>>
       ELSE Leaves("raised")
  /\ IF sendResult = "ok" THEN UNCHANGED walkFault ELSE NoteFault("fetch")
  /\ UNCHANGED <<inputVars, repoVars, postIdSet, retryCount, cancel, faultBudget, runs,
                 stopCause, stopQueued, stopFetches, listFetches, queuedRows, savedSeq,
                 lastDetail, skipped, fetchedUrls>>

\* getPostList returned false: search returns (lines 481 and 502)
WalkStops == SearchReturned

WalkThrows_raises == Leaves("raised")

\* getPostList threw: out of startCrawling from the first page of a block,
\* into the catch of lines 503-505 from an inner page
WalkThrows ==
  IF inner
    THEN /\ linkIdx' = Len(pagingBar) + 1
         /\ pc' = "links"
         /\ UNCHANGED <<nextUrl, currentPageUrl, pagingBar, rows, rowIdx, inner,
                        collectVars, heartbeat, outcome>>
    ELSE Leaves("raised")

\* getPostList goes on to its next row
WalkGoesOn ==
  /\ rowIdx' = rowIdx + 1
  /\ UNCHANGED <<pc, nextUrl, currentPageUrl, pagingBar, linkIdx, rows, inner,
                 collectVars, heartbeat, outcome>>

\* the row met a stop condition: remembered once per run
NoteStop(cause) ==
  IF stopCause = "none"
    THEN /\ stopCause' = cause
         /\ stopQueued' = postIdSet
         /\ stopFetches' = listFetches
    ELSE UNCHANGED <<stopCause, stopQueued, stopFetches>>

\* getPostList, lines 591-668: one row
GetPostListRow ==
  /\ pc = "ingest"
  /\ rowIdx <= Len(rows)
  /\ LET row == rows[rowIdx]
         verdict == beforeLookup(row, dateFrom)
         old == /\ isPostRow(row)
                /\ row.link = "ok"
                /\ dateFrom.set
                /\ DateLess(row.date, dateFrom)
         id == urlToPlatformId(row.url)
     IN /\ IF old THEN NoteStop("date")
           ELSE IF verdict = "lookup" /\ id \in posts THEN NoteStop("exists")
           ELSE UNCHANGED <<stopCause, stopQueued, stopFetches>>
        /\ \/ /\ verdict = "skip"
              /\ WalkGoesOn
              /\ UNCHANGED <<repoCalls, postIdSet, queuedRows, walkFault>>
           \/ /\ verdict = "stop"
              /\ WalkStops
              /\ UNCHANGED <<repoCalls, postIdSet, queuedRows, walkFault>>
           \/ /\ verdict = "throw"
              /\ WalkThrows
              /\ NoteFault("ingest")
              /\ UNCHANGED <<repoCalls, postIdSet, queuedRows>>
           \/ /\ verdict = "lookup"
              /\ afterLookup(id \in posts) = "stop"
              /\ repoCalls' = repoCalls \cup {"findPostByPlatformId"}
              /\ WalkStops
              /\ UNCHANGED <<postIdSet, queuedRows, walkFault>>
           \/ /\ verdict = "lookup"
              /\ afterLookup(id \in posts) = "queue"
              /\ repoCalls' = repoCalls \cup {"findPostByPlatformId"}
              /\ postIdSet' = SetAdd(postIdSet, id)
              /\ queuedRows' = queuedRows \cup {row}
              /\ WalkGoesOn
              /\ UNCHANGED walkFault
           \/ /\ verdict = "lookup"
              /\ afterLookup(id \in posts) = "skip"
              /\ repoCalls' = repoCalls \cup {"findPostByPlatformId"}
              /\ WalkGoesOn
              /\ UNCHANGED <<postIdSet, queuedRows, walkFault>>
  /\ UNCHANGED <<inputVars, posts, comments, insertLog, lastBulk, retryCount, cancel,
                 sendVars, runs, listFetches, savedSeq, lastDetail, skipped,
                 fetchedUrls>>

\* getPostList, lines 649-652: findPostByPlatformId fails with a backend error
GetPostListRepoError ==
  /\ pc = "ingest"
  /\ rowIdx <= Len(rows)
  /\ beforeLookup(rows[rowIdx], dateFrom) = "lookup"
  /\ faultBudget > 0
  /\ faultBudget' = faultBudget - 1
  /\ repoCalls' = repoCalls \cup {"findPostByPlatformId"}
  /\ WalkThrows
  /\ NoteFault("ingest")
  /\ UNCHANGED <<inputVars, posts, comments, insertLog, lastBulk, postIdSet, retryCount,
                 cancel, sendResult, attempts, delays, resps, runs, stopCause,
                 stopQueued, stopFetches, listFetches, queuedRows, savedSeq, lastDetail,
                 skipped, fetchedUrls>>

\* getPostList returned true: lines 484-485 after the first page of a block,
\* lines 507-508 after an inner page
GetPostListDone ==
  /\ pc = "ingest"
  /\ rowIdx > Len(rows)
  /\ IF inner
       THEN /\ linkIdx' = linkIdx + 1
            /\ UNCHANGED currentPageUrl
       ELSE /\ linkIdx' = 1
            /\ currentPageUrl' = nextUrl
  /\ pc' = "links"
  /\ UNCHANGED <<inputVars, repoVars, postIdSet, retryCount, heartbeat, cancel,
                 nextUrl, pagingBar, rows, rowIdx, inner, collectVars, sendVars,
                 runs, outcome, histVars>>

\* search, lines 486-500: the next page link of the block is fetched
SearchInner ==
  /\ pc = "links"
  /\ NextPageLink(pagingBar, linkIdx) # 0
  /\ linkIdx' = NextPageLink(pagingBar, linkIdx)
  /\ nextUrl' = pagingBar[NextPageLink(pagingBar, linkIdx)].href
  /\ BeginSend
  /\ listFetches' = listFetches + 1
  /\ fetchedUrls' = Append(fetchedUrls, pagingBar[NextPageLink(pagingBar, linkIdx)].href)
  /\ pc' = "inner_wait"
  /\ UNCHANGED <<inputVars, repoVars, postIdSet, retryCount, heartbeat, cancel,
                 currentPageUrl, pagingBar, rows, rowIdx, inner, collectVars, runs,
                 outcome, stopCause, stopQueued, stopFetches, queuedRows, savedSeq,
                 lastDetail, skipped, walkFault>>

\* search, lines 500-506: the inner page arrived, or its fetch threw and the
\* catch leaves the page loop
SearchInnerPage ==
  /\ pc = "inner_wait"
  /\ sendResult \in Terminal
  /\ SendTaken
  /\ IF sendResult = "ok"
       THEN /\ rows' = ListingPage(nextUrl).rows
            /\ rowIdx' = 1
            /\ inner' = TRUE
            /\ pc' = "ingest"
            /\ UNCHANGED <<linkIdx, walkFault>>
       ELSE /\ linkIdx' = Len(pagingBar) + 1
            /\ pc' = "links"
            /\ NoteFault("fetch")
            /\ UNCHANGED <<rows, rowIdx, inner>>
  /\ UNCHANGED <<inputVars, repoVars, postIdSet, retryCount, heartbeat, cancel,
                 nextUrl, currentPageUrl, pagingBar, collectVars, faultBudget, runs,
                 outcome, stopCause, stopQueued, stopFetches, listFetches, queuedRows,
                 savedSeq, lastDetail, skipped, fetchedUrls>>

\* search, lines 510-519: the page links are done; on to the next block, or out
SearchNextBlock ==
  /\ pc = "links"
  /\ NextPageLink(pagingBar, linkIdx) = 0
  /\ IF extractNextHrefFromPaging(pagingBar) = ""
       THEN SearchReturned
       ELSE /\ nextUrl' = extractNextHrefFromPaging(pagingBar)
            /\ pc' = "search"
            /\ UNCHANGED <<currentPageUrl, pagingBar, linkIdx, rows, rowIdx, inner,
                           collectVars, heartbeat, outcome>>
  /\ UNCHANGED <<inputVars, repoVars, postIdSet, retryCount, cancel, sendVars, runs,
                 histVars>>

\* ------------------------------------------------------------ the collector
\* the platform comment id of line 822
PlatformCommentId(url, no) == [post |-> urlToPlatformId(url), no |-> no]

commentKept_keepsDeleted(url, c, stored) ==
  IF c.no = <<>> THEN FALSE
  ELSE IF PlatformCommentId(url, c.no) \in stored THEN FALSE
  ELSE IF ~c.text THEN FALSE
  ELSE TRUE

commentKept_ignoresStored(url, c, stored) ==
  IF c.no = <<>> THEN FALSE
  ELSE IF c.deleted THEN FALSE
  ELSE IF ~c.text THEN FALSE
  ELSE TRUE

\* saveCommentInfo, lines 819-833: the item gets past every continue
commentKept(url, c, stored) ==
  IF c.no = <<>> THEN FALSE
  ELSE IF c.deleted THEN FALSE
  ELSE IF PlatformCommentId(url, c.no) \in stored THEN FALSE
  ELSE IF ~c.text THEN FALSE
  ELSE TRUE

RECURSIVE KeptItems(_, _, _)
\* saveCommentInfo, lines 818-860: the items of a comment list that are pushed
\* to results, against the comments the repository holds
KeptItems(url, list, stored) ==
  IF list = <<>> THEN <<>>
  ELSE IF commentKept(url, list[1], stored)
    THEN <<list[1]>> \o KeptItems(url, Tail(list), stored)
  ELSE KeptItems(url, Tail(list), stored)

\* saveCommentInfo, lines 816-860: the platform comment ids of the results
CommentInputs(url, list, stored) ==
  LET kept == KeptItems(url, list, stored)
  IN [i \in DOMAIN kept |-> PlatformCommentId(url, kept[i].no)]

\* saveCommentInfo reaches a repository call: some item gets to commentExists
AsksRepository(list) == \E i \in DOMAIN list : list[i].no # <<>> /\ ~list[i].deleted

SeqRange(s) == {s[i] : i \in DOMAIN s}

NextId_walksAgain ==
  /\ idx' = idx + 1
  /\ pc' = "search"
  /\ saved' = NoPost
  /\ page' = 1
  /\ UNCHANGED ids

\* savePostInfo returned: the loop of lines 402-413 goes on to the next id
NextId ==
  /\ idx' = idx + 1
  /\ pc' = "collect"
  /\ saved' = NoPost
  /\ page' = 1
  /\ UNCHANGED ids

Collect_noPoll ==
  /\ pc = "collect"
  /\ IF idx > Len(ids)
       THEN /\ Leaves("returned")
            /\ UNCHANGED <<sendVars, savedSeq>>
       ELSE /\ savedSeq' = Append(savedSeq, ids[idx])
            /\ BeginSend
            /\ pc' = "detail_wait"
            /\ UNCHANGED <<heartbeat, outcome, walkVars, collectVars>>
  /\ lastDetail' = "none"
  /\ UNCHANGED <<inputVars, repoVars, postIdSet, retryCount, cancel, runs, stopCause,
                 stopQueued, stopFetches, listFetches, queuedRows, skipped,
                 fetchedUrls, walkFault>>

\* startCrawling, lines 402-415, and savePostInfo up to its fetch, lines 687-692
Collect ==
  /\ pc = "collect"
  /\ IF idx > Len(ids) \/ cancel
       THEN /\ Leaves("returned")
            /\ UNCHANGED <<sendVars, savedSeq>>
       ELSE /\ savedSeq' = Append(savedSeq, ids[idx])
            /\ BeginSend
            /\ pc' = "detail_wait"
            /\ UNCHANGED <<heartbeat, outcome, walkVars, collectVars>>
  /\ lastDetail' = "none"
  /\ UNCHANGED <<inputVars, repoVars, postIdSet, retryCount, cancel, runs, stopCause,
                 stopQueued, stopFetches, listFetches, queuedRows, skipped,
                 fetchedUrls, walkFault>>

SavePostInfo_noEarlyReturn ==
  /\ pc = "detail_wait"
  /\ sendResult \in Terminal
  /\ SendTaken
  /\ posts' = posts \cup {ids[idx]}
  /\ insertLog' = Append(insertLog, ids[idx])
  /\ repoCalls' = repoCalls \cup {"insertPost"}
  /\ NextId
  /\ lastDetail' = sendResult
  /\ UNCHANGED <<comments, lastBulk, faultBudget>>
  /\ UNCHANGED <<inputVars, postIdSet, retryCount, heartbeat, cancel, walkVars, runs,
                 outcome, stopCause, stopQueued, stopFetches, listFetches, queuedRows,
                 savedSeq, skipped, fetchedUrls, walkFault>>

\* savePostInfo, lines 693-752: the fetch threw (skip), or the page is parsed
\* and inserted and the comment loop is entered when the post has comments
SavePostInfo ==
  /\ pc = "detail_wait"
  /\ sendResult \in Terminal
  /\ SendTaken
  /\ LET id == ids[idx]
     IN \/ /\ sendResult # "ok"
           /\ NextId
           /\ skipped' = skipped \cup {id}
           /\ UNCHANGED <<repoVars, faultBudget>>
        \/ /\ sendResult = "ok"
           /\ faultBudget > 0
           /\ faultBudget' = faultBudget - 1
           /\ repoCalls' = repoCalls \cup {"insertPost"}
           /\ NextId
           /\ skipped' = skipped \cup {id}
           /\ UNCHANGED <<posts, comments, insertLog, lastBulk>>
        \/ /\ sendResult = "ok"
           /\ posts' = posts \cup {id}
           /\ insertLog' = Append(insertLog, id)
           /\ repoCalls' = repoCalls \cup {"insertPost"}
           /\ IF CommentCntOf(id) > 0
                THEN /\ saved' = [id |-> id, url |-> platformIdToUrl(id),
                                  commentCnt |-> CommentCntOf(id)]
                     /\ page' = 1
                     /\ pc' = "comments"
                     /\ UNCHANGED <<ids, idx>>
                ELSE NextId
           /\ UNCHANGED <<comments, lastBulk, faultBudget, skipped>>
  /\ lastDetail' = sendResult
  /\ UNCHANGED <<inputVars, postIdSet, retryCount, heartbeat, cancel, walkVars, runs,
                 outcome, stopCause, stopQueued, stopFetches, listFetches, queuedRows,
                 savedSeq, fetchedUrls, walkFault>>

SaveCommentsFetch_skipsPage ==
  /\ pc = "comments"
  /\ BeginSend
  /\ pc' = "comment_wait"
  /\ lastBulk' = NoBulk
  /\ page' = page + 1
  /\ UNCHANGED <<inputVars, posts, comments, insertLog, repoCalls, postIdSet, retryCount,
                 heartbeat, cancel, walkVars, ids, idx, saved, runs, outcome, histVars>>

\* saveCommentsFromPost, lines 761-765: the next comment page is requested
SaveCommentsFetch ==
  /\ pc = "comments"
  /\ BeginSend
  /\ pc' = "comment_wait"
  /\ lastBulk' = NoBulk
  /\ UNCHANGED <<inputVars, posts, comments, insertLog, repoCalls, postIdSet, retryCount,
                 heartbeat, cancel, walkVars, collectVars, runs, outcome, histVars>>

\* saveCommentsFromPost, lines 765-773, with saveCommentInfo, lines 811-863
SaveCommentsPage ==
  /\ pc = "comment_wait"
  /\ sendResult \in Terminal
  /\ SendTaken
  /\ \/ /\ sendResult # "ok"
        /\ NextId
        /\ UNCHANGED <<repoVars, faultBudget>>
     \/ /\ sendResult = "ok"
        /\ NextId
        /\ UNCHANGED <<repoVars, faultBudget>>
     \/ /\ sendResult = "ok"
        /\ page <= MaxCommentPages
        /\ \E list \in CommentPages :
             \/ /\ AsksRepository(list)
                /\ faultBudget > 0
                /\ faultBudget' = faultBudget - 1
                /\ repoCalls' = repoCalls \cup {"commentExists"}
                /\ NextId
                /\ UNCHANGED <<posts, comments, insertLog, lastBulk>>
             \/ /\ LET results == CommentInputs(saved.url, list, comments)
                       asked == IF AsksRepository(list) THEN {"commentExists"} ELSE {}
                   IN IF Len(results) > 0
                        THEN /\ comments' = comments \cup SeqRange(results)
                             /\ lastBulk' = [batch |-> results, before |-> comments,
                                              items |-> KeptItems(saved.url, list, comments),
                                              list |-> list]
                             /\ repoCalls' = repoCalls \cup asked \cup {"insertCommentsBulk"}
                        ELSE /\ repoCalls' = repoCalls \cup asked
                             /\ UNCHANGED <<comments, lastBulk>>
                /\ page' = page + 1
                /\ pc' = "comments"
                /\ UNCHANGED <<posts, insertLog, faultBudget, ids, idx, saved>>
  /\ UNCHANGED <<inputVars, postIdSet, retryCount, heartbeat, cancel, walkVars, runs,
                 outcome, histVars>>

\* ------------------------------------------------------- the client alone
\* a caller of sendRequest on one engine: one call after the other
ClientSend ==
  /\ pc = "client"
  /\ sendResult # "pending"
  /\ BeginSend
  /\ UNCHANGED <<inputVars, repoVars, postIdSet, retryCount, heartbeat, cancel, pc,
                 walkVars, collectVars, runs, outcome, histVars>>

\* ------------------------------------------------------------ specifications
\* the scenarios: a listing, options.dateFrom and the posts already stored
Scenario(l, from, stored) ==
  [listing |-> l, options |-> UrlOptions, dateFrom |-> from, posts |-> stored]

\* a scenario whose options lack what its mode requires
Misconfigured(l, o) == [listing |-> l, options |-> o, dateFrom |-> NoDateFrom, posts |-> {}]

Scenarios ==
  { Scenario("A", NoDateFrom, {}),
    Scenario("A", NoDateFrom, {PlatformId("G", "pro", Digits100)}),
    Scenario("A", NoDateFrom, {PlatformId("G", "pro", Digits98)}),
    Scenario("A", NoDateFrom, {PlatformId("M", "pro", Digits9)}),
    Scenario("A", DateFrom(2), {}),
    Scenario("A", DateFrom(3), {}),
    Scenario("B", NoDateFrom, {}),
    Scenario("B", DateFrom(3), {}),
    Scenario("C", NoDateFrom, {}),
    Misconfigured("A", Options("keyword", FALSE, TRUE, FALSE)),
    Misconfigured("A", Options("plain", FALSE, FALSE, FALSE)) }

\* no URL text is under the codec
NoCodec == [stage |-> "none", url |-> UrlText(<< >>, << >>), id |-> << >>,
            back |-> UrlText(<< >>, << >>), post |-> << >>, items |-> << >>,
            batch |-> << >>]

InitCommon ==
  /\ comments = {}
  /\ insertLog = <<>>
  /\ lastBulk = NoBulk
  /\ repoCalls = {}
  /\ postIdSet = <<>>
  /\ retryCount = 0
  /\ heartbeat = FALSE
  /\ cancel = FALSE
  /\ nextUrl = ""
  /\ currentPageUrl = ""
  /\ pagingBar = <<>>
  /\ linkIdx = 1
  /\ rows = <<>>
  /\ rowIdx = 1
  /\ inner = FALSE
  /\ ids = <<>>
  /\ idx = 1
  /\ saved = NoPost
  /\ page = 1
  /\ sendResult = "none"
  /\ attempts = 0
  /\ delays = <<>>
  /\ resps = <<>>
  /\ runs = 0
  /\ outcome = "none"
  /\ stopCause = "none"
  /\ stopQueued = <<>>
  /\ stopFetches = 0
  /\ listFetches = 0
  /\ queuedRows = {}
  /\ savedSeq = <<>>
  /\ lastDetail = "none"
  /\ skipped = {}
  /\ fetchedUrls = <<>>
  /\ walkFault = "none"

\* an engine is constructed for a scenario, its listing and its repository
Init ==
  /\ InitCommon
  /\ \E sc \in Scenarios :
       /\ listing = sc.listing
       /\ options = sc.options
       /\ dateFrom = sc.dateFrom
       /\ posts = sc.posts
  /\ codec = NoCodec
  /\ faultBudget = EngineFaults
  /\ pc = "idle"

Next ==
  \/ NewEngine
  \/ CancelRequested
  \/ CancelCleared
  \/ StartCrawling
  \/ SearchFirstUrl
  \/ SearchBlock
  \/ SearchBlockPage
  \/ GetPostListRow
  \/ GetPostListRepoError
  \/ GetPostListDone
  \/ SearchInner
  \/ SearchInnerPage
  \/ SearchNextBlock
  \/ Collect
  \/ SavePostInfo
  \/ SaveCommentsFetch
  \/ SaveCommentsPage
  \/ SendAttempt

Spec == Init /\ [][Next]_vars

\* search alone: one invocation of startCrawling up to the return of search.
\* WalkStep is what the walker does on its own: each awaited promise settles
\* (a request is answered or times out, a sleep ends)
WalkStep ==
  \/ SearchFirstUrl
  \/ SearchBlock
  \/ SearchBlockPage
  \/ GetPostListRow
  \/ GetPostListDone
  \/ SearchInner
  \/ SearchInnerPage
  \/ SearchNextBlock
  \/ SendAttempt

NextWalk ==
  \/ StartCrawling
  \/ CancelRequested
  \/ GetPostListRepoError
  \/ WalkStep

SpecWalk == Init /\ [][NextWalk]_vars /\ WF_vars(WalkStep)

\* the HTTP client of one engine, called again and again
InitClient ==
  /\ InitCommon
  /\ listing = "A"
  /\ options = UrlOptions
  /\ dateFrom = NoDateFrom
  /\ posts = {}
  /\ codec = NoCodec
  /\ faultBudget = ClientFaults
  /\ pc = "client"

NextClient ==
  \/ ClientSend
  \/ SendAttempt

SpecClient == InitClient /\ [][NextClient]_vars

\* the constructor and the first steps of a run, for every combination of options
Construct ==
  /\ pc = "unbuilt"
  /\ pc' = IF constructorThrows(options) THEN "failed" ELSE "idle"
  /\ UNCHANGED <<inputVars, repoVars, postIdSet, retryCount, heartbeat, cancel,
                 walkVars, collectVars, sendVars, runs, outcome, histVars>>

InitConfig ==
  /\ InitCommon
  /\ listing = "A"
  /\ options \in OptionSet
  /\ dateFrom = NoDateFrom
  /\ posts = {}
  /\ codec = NoCodec
  /\ faultBudget = EngineFaults
  /\ pc = "unbuilt"

NextConfig ==
  \/ Construct
  \/ StartCrawling
  \/ SearchFirstUrl

SpecConfig == InitConfig /\ [][NextConfig]_vars

\* the codec alone: a post view URL is encoded, and the id is decoded
engineVars == <<repoVars, postIdSet, retryCount, heartbeat, cancel, pc, walkVars,
                collectVars, sendVars, runs, outcome, histVars>>

UrlToPlatformId ==
  /\ codec.stage = "url"
  /\ ~ThrowsInvalidUrlText(codec.url)
  /\ codec' = [codec EXCEPT !.stage = "id", !.id = urlToPlatformIdText(codec.url)]
  /\ UNCHANGED <<listing, options, dateFrom, engineVars>>

PlatformIdToUrl ==
  /\ codec.stage = "id"
  /\ codec' = [codec EXCEPT !.stage = "back", !.back = platformIdToUrlText(codec.id)]
  /\ UNCHANGED <<listing, options, dateFrom, engineVars>>

InitCodec ==
  /\ InitCommon
  /\ listing = "A"
  /\ options = UrlOptions
  /\ dateFrom = NoDateFrom
  /\ posts = {}
  /\ \E u \in PostViewUrls : codec = [NoCodec EXCEPT !.stage = "url", !.url = u]
  /\ faultBudget = 0
  /\ pc = "codec"

NextCodec ==
  \/ UrlToPlatformId
  \/ PlatformIdToUrl

SpecCodec == InitCodec /\ [][NextCodec]_vars

\* ------------------------------------------- one post's comments, as text
\* options.id, the scenario of the engine (line 9)
ScenarioId == "options.id"

\* the surrogate ids the repository may give a post
PostIds == {"post-1", "post-2"}

\* a comment number as the API writes it: a string of digits
DigitText(ds) ==
  [i \in DOMAIN ds |-> << "0", "1", "2", "3", "4", "5", "6", "7", "8", "9" >>[ds[i] + 1]]

\* line 822: the platform id of the post URL, '&' and the comment number
PlatformCommentIdText(url, no) ==
  urlToPlatformIdText(url) \o << "&" >> \o DigitText(no)

\* savePostInfo, lines 688-748: the URL made of the queued id was fetched and
\* parsed, the post is inserted under that id and the repository returns it
\* with its surrogate postId
InsertPost ==
  /\ codec.stage = "back"
  /\ \E pid \in PostIds, cnt \in {0, 2} :
       codec' = [codec EXCEPT !.stage = "post",
                              !.post = [postId |-> pid, scenarioId |-> ScenarioId,
                                        platformPostId |-> codec.id, url |-> codec.back,
                                        commentCnt |-> cnt]]
  /\ UNCHANGED <<listing, options, dateFrom, engineVars>>

\* saveCommentsFromPost on one page, lines 746-748 and 765-768, with
\* saveCommentInfo, lines 811-863: getCommentPage decodes the post URL (line
\* 784), the list is filtered and the results are inserted when there are any;
\* dup is the set of comment numbers commentExists reports as stored
SaveCommentInfo ==
  /\ codec.stage = "post"
  /\ codec.post.commentCnt > 0
  /\ ~ThrowsInvalidUrlText(codec.post.url)
  /\ \E list \in CommentPages, dup \in SUBSET {<<1>>} :
       LET Kept(c) == c.no # <<>> /\ ~c.deleted /\ c.no \notin dup /\ c.text
           kept == SelectSeq(list, Kept)
           results == [i \in DOMAIN kept |->
                         [postId |-> codec.post.postId,
                          platformCommentId |-> PlatformCommentIdText(codec.post.url, kept[i].no),
                          scenarioId |-> ScenarioId]]
       IN codec' = [codec EXCEPT !.stage = IF Len(results) > 0 THEN "batch" ELSE "nobatch",
                                 !.items = kept,
                                 !.batch = results]
  /\ UNCHANGED <<listing, options, dateFrom, engineVars>>

NextBatch ==
  \/ UrlToPlatformId
  \/ PlatformIdToUrl
  \/ InsertPost
  \/ SaveCommentInfo

\* a post from its listing row to its first comment batch
SpecBatch == InitCodec /\ [][NextBatch]_vars

\* ------------------------------------------------------------------ claims
G101 == PlatformId("G", "pro", Digits101)
G100 == PlatformId("G", "pro", Digits100)
G99 == PlatformId("G", "pro", Digits99)

\* the engine is inside search()
WalkPcs == {"start", "search", "first_wait", "ingest", "links", "inner_wait"}

\* the order the collector is meant to follow: gallType and galleryId as
\* strings, postNo as a number
KeyLess(a, b) ==
  LET ta == CodeUnits(a.gallType)
      tb == CodeUnits(b.gallType)
      ga == CodeUnits(a.galleryId)
      gb == CodeUnits(b.galleryId)
  IN \/ StrLess(ta, tb)
     \/ ta = tb /\ StrLess(ga, gb)
     \/ ta = tb /\ ga = gb /\ Number(a.postNo) < Number(b.postNo)

Min(a, b) == IF a < b THEN a ELSE b

\* the responses of the call so far are n times status st and nothing else
AllStatus(st) == \A i \in DOMAIN resps : resps[i] = st

\* the responses of the call so far: status st some times, then possibly one 200
FailsThenOk(st) ==
  \A i \in DOMAIN resps : resps[i] = st \/ (i = Len(resps) /\ resps[i] = 200)

Failures == Cardinality({i \in DOMAIN resps : resps[i] # 200})

\* C1: insertPost creates a row at most once for a platform post id of the
\* scenario, over all startCrawling runs, a second run of one engine included.
C1_PostInsertedOnce ==
  \A i, j \in DOMAIN insertLog : i # j => insertLog[i] # insertLog[j]

\* C2: an insertCommentsBulk call carries no comment that the repository
\* already holds and no comment twice.
C2_BulkCarriesNoDuplicate ==
  /\ \A i \in DOMAIN lastBulk.batch : lastBulk.batch[i] \notin lastBulk.before
  /\ \A i, j \in DOMAIN lastBulk.batch : i # j => lastBulk.batch[i] # lastBulk.batch[j]

\* C3: once findPostByPlatformId has reported an existing post for a row, the
\* walk is over: search has returned, nothing more is added to postIdSet and no
\* further listing page is requested; what was queued before stays queued.
\* With 101, 100, 99 listed and 100 stored, exactly 101 is queued.
C3_IncrementalStop ==
  /\ stopCause = "exists" =>
       /\ pc \notin WalkPcs
       /\ postIdSet = stopQueued
       /\ listFetches = stopFetches
  /\ (stopCause = "exists" /\ listing = "A" /\ G100 \in posts /\ insertLog = <<>>) =>
       postIdSet = <<G101>>

C3_Witness ==
  /\ stopCause = "exists"
  /\ listing = "A"
  /\ G100 \in posts
  /\ insertLog = <<>>
  /\ stopQueued = <<G101>>
  /\ pc = "collect"
  /\ ids = <<G101>>

\* C4: with dateFrom = D no row whose parsed date is before D is ever added to
\* postIdSet, and the first such row ends the walk: search has returned,
\* nothing more is queued and no further listing page is requested.
C4_DateCutoff ==
  /\ \A r \in queuedRows : ~(dateFrom.set /\ DateLess(r.date, dateFrom))
  /\ stopCause = "date" =>
       /\ pc \notin WalkPcs
       /\ postIdSet = stopQueued
       /\ listFetches = stopFetches

C4_Witness ==
  /\ stopCause = "date"
  /\ dateFrom = DateFrom(2)
  /\ stopQueued = <<G101, G100, G99>>
  /\ stopFetches = 2
  /\ pc = "collect"

\* C5: the ids savePostInfo is called with in one run are strictly ascending
\* in (gallType, galleryId, numeric postNo).
C5_AscendingOrder ==
  \A i \in 1..(Len(savedSeq) - 1) : KeyLess(savedSeq[i], savedSeq[i + 1])

C5_Witness ==
  savedSeq = << PlatformId("M", "art", Digits12), PlatformId("M", "pro", Digits9),
                PlatformId("M", "pro", Digits10), PlatformId("MI", "art", Digits7) >>

\* C6: against 500 N times and then 200, one send call issues exactly
\* min(N+1, maxRetries+1) requests, so never more than maxRetries+1.
C6_RetryCount ==
  FailsThenOk(500) => attempts <= Min(Failures + 1, maxRetries + 1)

\* C7: the sleep before the k-th retry of a send call is 2^k seconds; for
\* 429, 429, 200 the delays are 2 s and 4 s and the call returns the response.
C7_RetrySchedule ==
  /\ \A k \in DOMAIN delays : delays[k] = (2 ^ k) * 1000
  /\ resps = <<429, 429, 200>> => delays = <<2000, 4000>> /\ sendResult = "ok"

\* C8: the retries of a send call do not depend on earlier calls: a call that
\* raises a retryable error has slept maxRetries times before, and the first
\* sleep of a call is 2 s.
C8_PerRequestPolicy ==
  /\ sendResult = "error" => Len(delays) >= maxRetries
  /\ delays # <<>> => delays[1] = 2000

\* C9: answered 429 at every attempt, a send call stops after its bounded
\* retries and raises: after maxRetries+1 such responses it has raised.
C9_PersistentRateLimitEnds ==
  (AllStatus(429) /\ Len(resps) >= maxRetries + 1) => sendResult = "error"

\* C10: a 404 response ends the send call at once with NotFound: no sleep
\* follows it, no retry is counted, and a call answered 404 first has issued
\* one request.
C10_NotFoundNotRetried ==
  /\ (resps # <<>> /\ resps[Len(resps)] = 404) =>
       /\ sendResult = "notfound"
       /\ retryCount = 0
       /\ Len(delays) = Len(resps) - 1
  /\ sendResult = "notfound" => resps[Len(resps)] = 404
  /\ (resps # <<>> /\ resps[1] = 404) => attempts = 1 /\ delays = <<>>

C10_Witness ==
  /\ sendResult = "notfound"
  /\ resps = <<404>>
  /\ attempts = 1
  /\ delays = <<>>

G7 == PlatformId("G", "pro", Digits7)

\* the options lack what the selected mode requires
RequiredInputMissing(o) ==
  \/ o.mode = "keyword" /\ (~o.keyword \/ ~o.target)
  \/ o.mode = "gallog" /\ ~o.url
  \/ o.mode = "plain" /\ ~o.url /\ ~o.target

C12_CommentLoopPollsCancel ==
  [][(cancel /\ pc = "comments" /\ page > 1) => pc' # "comment_wait"]_vars

\* C13: when shouldCancel() answers true at the head of the collector loop,
\* startCrawling returns normally without fetching that post or a later one,
\* the heartbeat is stopped, and nothing persisted is lost, then or ever.
C13_CollectorCancelSilent ==
  [][/\ (pc = "collect" /\ cancel) =>
          /\ pc' = "idle"
          /\ outcome' = "returned"
          /\ ~heartbeat'
          /\ savedSeq' = savedSeq
          /\ sendResult' # "pending"
          /\ UNCHANGED <<posts, comments, insertLog>>
     /\ posts \subseteq posts'
     /\ comments \subseteq comments']_vars

C13_Witness ==
  /\ pc = "idle"
  /\ outcome = "returned"
  /\ cancel
  /\ runs = 1
  /\ insertLog # <<>>
  /\ Len(savedSeq) < Len(postIdSet)

\* C14: the heartbeat runs exactly while a startCrawling invocation is in
\* progress: after startCrawling returned or raised it is stopped.
C14_HeartbeatStopped ==
  /\ heartbeat <=> pc # "idle"
  /\ pc = "idle" <=> outcome # "running"
  /\ outcome \in {"returned", "raised"} => ~heartbeat

C14_Witness ==
  /\ outcome = "raised"
  /\ pc = "idle"
  /\ ~heartbeat
  /\ runs = 1
  /\ getFirstUrlThrows(options)

\* C15: with a required input of the selected mode missing, construction
\* fails: no engine is obtained.
C15_ConfigErrorsFatalAtConstruction ==
  RequiredInputMissing(options) => pc \in {"unbuilt", "failed"}

\* C16: a listing row whose URL does not decode to a platform id is skipped:
\* the run does not fail for it, and the rows after it are still ingested.
C16_InvalidUrlRowSkipped ==
  /\ (listing \in {"B", "C"} /\ faultBudget = EngineFaults) => outcome # "raised"
  /\ (/\ listing \in {"B", "C"}
      /\ faultBudget = EngineFaults
      /\ ~cancel
      /\ ~dateFrom.set
      /\ posts = {}
      /\ pc = "collect") => \E i \in DOMAIN postIdSet : postIdSet[i] = G7

\* C17: a backend error of a repository operation ends the run: startCrawling
\* raises at once. (A failure that does not come from the send call in
\* progress is a repository error.)
C17_BackendErrorFatal ==
  [][(faultBudget' < faultBudget /\ sendResult # "pending") =>
       (pc' = "idle" /\ outcome' = "raised")]_vars

\* C18: when the post fetch ends NotFound, savePostInfo returns without
\* insertPost and without the comment loop, no error is raised and the
\* collector is at the next queued id.
C18_NotFoundPostSkipped ==
  [][(pc = "detail_wait" /\ sendResult = "notfound" /\ pc' # pc) =>
       /\ pc' = "collect"
       /\ idx' = idx + 1
       /\ ids' = ids
       /\ outcome' = "running"
       /\ UNCHANGED <<posts, comments, insertLog, lastBulk>>]_vars

C18_Witness ==
  /\ lastDetail = "notfound"
  /\ pc = "collect"
  /\ outcome = "running"
  /\ Len(savedSeq) = 1
  /\ idx = 2
  /\ Len(ids) > 1
  /\ savedSeq[1] \notin posts
  /\ insertLog = <<>>

C20_BulkCommentsAreLive ==
  /\ Len(lastBulk.items) = Len(lastBulk.batch)
  /\ \A i \in DOMAIN lastBulk.items :
       LET c == lastBulk.items[i]
       IN /\ c.no # <<>>
          /\ ~c.deleted
          /\ c.text
          /\ lastBulk.batch[i].no = c.no
  /\ \A id \in comments : id.no # <<>>

C20_Witness ==
  /\ lastBulk.list = << Comment(<<>>, FALSE, TRUE), Comment(<<3>>, TRUE, TRUE),
                        Comment(<<2>>, FALSE, FALSE), Comment(<<1>>, FALSE, TRUE) >>
  /\ lastBulk.items = << Comment(<<1>>, FALSE, TRUE) >>
  /\ lastBulk.batch = << [post |-> G101, no |-> <<1>>] >>

\* C21: the comments written for a fetched comment page are exactly the items
\* of the page that pass the filters and are not yet in the repository, in
\* the order the upstream returned them, and one insertCommentsBulk call
\* writes them: after it the repository holds what it held plus the batch.
C21_BulkIsFilteredPage ==
  LET Passes(c) == /\ c.no # <<>>
                   /\ ~c.deleted
                   /\ c.text
                   /\ [post |-> saved.id, no |-> c.no] \notin lastBulk.before
      expected == SelectSeq(lastBulk.list, Passes)
  IN lastBulk.batch # <<>> =>
       /\ lastBulk.batch = [i \in DOMAIN expected |-> [post |-> saved.id, no |-> expected[i].no]]
       /\ comments = lastBulk.before \cup SeqRange(lastBulk.batch)

C21_Witness ==
  /\ lastBulk.list = << Comment(<<1>>, FALSE, TRUE), Comment(<<2>>, FALSE, TRUE),
                        Comment(<<3>>, FALSE, TRUE) >>
  /\ lastBulk.before = { [post |-> G101, no |-> <<2>>] }
  /\ lastBulk.batch = << [post |-> G101, no |-> <<1>>], [post |-> G101, no |-> <<3>>] >>
  /\ comments = { [post |-> G101, no |-> <<1>>], [post |-> G101, no |-> <<2>>],
                  [post |-> G101, no |-> <<3>>] }

\* C22: at the start of every startCrawling invocation the in-run id set of
\* the engine is empty.
C22_IdSetEmptyAtStart ==
  pc = "start" => postIdSet = <<>>

\* C23: for every post view URL u, the URL made of the platform id of u
\* decodes to the gallery type, gallery id and post number u decodes to, and
\* its path prefix is the one of the gallery type.
C23_RoundTrip ==
  codec.stage = "back" =>
    /\ ~ThrowsInvalidUrlText(codec.back)
    /\ extractGalleryInfoFromUrlText(codec.back) = extractGalleryInfoFromUrlText(codec.url)
    /\ codec.back.path = codec.url.path

C25_FirstUrlWithoutCrawlerMatch ==
  options.mode \notin {"keyword", "gallog"} =>
    /\ pc = "search" =>
         nextUrl = IF options.url THEN FirstUrl(listing) ELSE "lists?id=target"
    /\ (options.url \/ options.target) => outcome # "raised"

\* C26: within one run, while the listing walker has not finished there is no
\* post detail fetch and no row is inserted; after the first post detail
\* fetch no listing page is fetched and the engine is never back in the
\* walker, where findPostByPlatformId is called.
C26_PhaseOrdering ==
  [][/\ pc \in WalkPcs =>
          /\ savedSeq = <<>>
          /\ savedSeq' = <<>>
          /\ UNCHANGED <<posts, comments, insertLog>>
     /\ (savedSeq # <<>> /\ runs' = runs) =>
          /\ listFetches' = listFetches
          /\ pc' \notin WalkPcs]_vars

C26_Witness ==
  /\ runs = 1
  /\ listFetches = 3
  /\ pc = "detail_wait"
  /\ Len(savedSeq) = 2
  /\ insertLog = << savedSeq[1] >>

\* C27: the comment loop of a post is entered only when insertPost has just
\* stored the post and the post has comments, and it starts at page 1; the
\* page requested is the current one; the page number goes up by one only
\* after a page came back and was ingested; an empty list or any error ends
\* the loop with the run still running and the collector at the next id.
C27_CommentLoopProtocol ==
  [][/\ (pc \notin {"comments", "comment_wait"} /\ pc' = "comments") =>
          /\ pc = "detail_wait"
          /\ sendResult = "ok"
          /\ CommentCntOf(ids[idx]) > 0
          /\ insertLog' = Append(insertLog, ids[idx])
          /\ page' = 1
     /\ (pc = "comments" /\ pc' # pc) =>
          /\ pc' = "comment_wait"
          /\ page' = page
     /\ (pc = "comment_wait" /\ pc' # pc) =>
          \/ /\ pc' = "comments"
             /\ sendResult = "ok"
             /\ faultBudget' = faultBudget
             /\ page' = page + 1
          \/ /\ pc' = "collect"
             /\ idx' = idx + 1
             /\ ids' = ids
             /\ outcome' = "running"
             /\ UNCHANGED <<posts, comments, insertLog>>
     /\ (/\ pc = "comment_wait"
         /\ pc' # pc
         /\ (sendResult \in {"notfound", "error"} \/ faultBudget' < faultBudget)) =>
          /\ pc' = "collect"
          /\ idx' = idx + 1
          /\ outcome' = "running"]_vars

C27_Witness ==
  /\ pc = "comment_wait"
  /\ page = 3
  /\ Cardinality(comments) >= 2
  /\ saved.id = G101
  /\ outcome = "running"

\* C28: a run only creates rows. No step removes a post or a comment row or
\* an entry of the insert log, and the repository operations a run calls are
\* findPostByPlatformId, insertPost, commentExists and insertCommentsBulk:
\* never updatePostCommentCount, never listRecentPosts.
C28_LifecycleFrame ==
  [][/\ posts \subseteq posts'
     /\ comments \subseteq comments'
     /\ Len(insertLog') >= Len(insertLog)
     /\ SubSeq(insertLog', 1, Len(insertLog)) = insertLog
     /\ repoCalls' \cap {"updatePostCommentCount", "listRecentPosts"} = {}
     /\ repoCalls' \subseteq {"findPostByPlatformId", "insertPost", "commentExists",
                              "insertCommentsBulk"}]_vars

C28_Witness ==
  /\ repoCalls = {"findPostByPlatformId", "insertPost", "commentExists",
                  "insertCommentsBulk"}
  /\ pc = "comments"
  /\ posts # {}
  /\ comments # {}

\* C29: a post the collector skipped (its fetch, its parse or its insert
\* failed) is queued again by the walker of the next run, while it is still
\* listed. Checked where the next run's walker has returned without being
\* cancelled and every failure of the behaviour was one skipped post.
C29_SkippedPostQueuedAgain ==
  (/\ runs = 2
   /\ pc = "collect"
   /\ ~cancel
   /\ Cardinality(skipped) = EngineFaults - faultBudget) =>
    \A id \in skipped : id \in posts \/ id \in SeqRange(postIdSet)

MaxBlocks == 3

RECURSIVE ExpectedWalk(_, _)
ExpectedWalk(u, n) ==
  IF u = "" \/ n = 0 THEN <<>>
  ELSE LET bar == ListingPage(u).paging
           Classless(a) == a.cls = "" /\ a.href # ""
           BlockNext(a) == a.cls \in {"page_next", "search_next"}
           links == SelectSeq(bar, Classless)
           nexts == SelectSeq(bar, BlockNext)
       IN <<u>> \o [i \in DOMAIN links |-> links[i].href]
            \o (IF nexts = <<>> THEN <<>> ELSE ExpectedWalk(nexts[1].href, n - 1))

IsPrefix(s, t) == Len(s) <= Len(t) /\ SubSeq(t, 1, Len(s)) = s

C32_BatchesAnchored ==
  codec.stage = "batch" =>
    /\ codec.batch # << >>
    /\ \A i \in DOMAIN codec.batch :
         /\ codec.batch[i].postId = codec.post.postId
         /\ codec.batch[i].scenarioId = codec.post.scenarioId
         /\ codec.batch[i].platformCommentId =
              codec.post.platformPostId \o << "&" >> \o DigitText(codec.items[i].no)

====
